---- MODULE Spec2Model ----
(***************************************************************************)
(* The recursive-descent parser of src/src/parser.rs as a state machine.   *)
(*                                                                         *)
(* The parser state is the struct Parser (tokens, cursor, locals) plus the *)
(* call stack of the grammar procedures: one frame per active call, whose  *)
(* pc is the place the call resumes at and whose node/nodes/op hold the    *)
(* procedure's local variables.  Every step runs one procedure from its    *)
(* resume point up to the next call, return or token consumption, so a     *)
(* step consumes at most one token.                                        *)
(***************************************************************************)
EXTENDS Integers, Sequences, FiniteSets, TLC

VARIABLES tokens, cursor, locals, stack, ret, status, result, diag, calls, steps

vars == <<tokens, cursor, locals, stack, ret, status, result, diag, calls, steps>>

(***************************************************************************)
(* Tokens (crate::lexer::Token): kind, raw_str, and the value of a Num.    *)
(***************************************************************************)
Reserved(s) == [kind |-> "Reserved", raw_str |-> s, val |-> 0]
Ident(s) == [kind |-> "Ident", raw_str |-> s, val |-> 0]
Number(v, s) == [kind |-> "Num", raw_str |-> s, val |-> v]
Eof == [kind |-> "Eof", raw_str |-> "", val |-> 0]

(***************************************************************************)
(* AST (struct Node, enum NodeKind).  Option::None is None.                *)
(***************************************************************************)
None == [tag |-> "None"]
Node(kind, lhs, rhs) == [kind |-> kind, lhs |-> lhs, rhs |-> rhs]
Kind(tag) == [tag |-> tag]
Num(v) == Node([tag |-> "Num", val |-> v], None, None)
Var(name) == Node([tag |-> "Var", name |-> name], None, None)
Block(nodes) == Node([tag |-> "Block", nodes |-> nodes], None, None)
IfNode(cond, then, els) ==
    Node([tag |-> "If", cond |-> cond, then |-> then, els |-> els], None, None)
ForNode(init, cond, inc, then) ==
    Node([tag |-> "For", init |-> init, cond |-> cond, inc |-> inc, then |-> then],
         None, None)

NodeKinds == {"Add", "Sub", "Mul", "Div", "Num", "Eq", "Ne", "Lt", "Le", "ExprStmt",
              "Assign", "Var", "Return", "Block", "If", "For"}

(***************************************************************************)
(* Parser state as a value p: the fields of struct Parser, the call stack, *)
(* the value handed back by the last return (ret), the outcome of parse()  *)
(* (status, result), the diagnostic of error_at (diag), the primitive      *)
(* calls the current step made with what each reported (calls) and the     *)
(* number of steps taken (steps).                                          *)
(***************************************************************************)
new(toks) ==
    [tokens |-> toks, cursor |-> 0, locals |-> {},
     stack |-> <<[pc |-> "parse", node |-> None, nodes |-> <<>>, op |-> "", start |-> 0]>>,
     ret |-> None, status |-> "running", result |-> None, diag |-> None,
     calls |-> <<>>, steps |-> 0]

Running(p) == p.status = "running"
InBounds(p) == p.cursor < Len(p.tokens)
TokAt(p) == p.tokens[p.cursor + 1]
Top(p) == p.stack[Len(p.stack)]

\* tokens[cursor] with cursor >= tokens.len(): Rust's index panic.
IndexPanic(p) == [p EXCEPT !.status = "oob"]

Log(p, fn, op, ok) ==
    [p EXCEPT !.calls = Append(@, [fn |-> fn, op |-> op, ok |-> ok, at |-> p.cursor])]

Frame(pc, at) == [pc |-> pc, node |-> None, nodes |-> <<>>, op |-> "", start |-> at]

\* Control transfers; none happens once the parse has halted.
Goto(p, pc) ==
    IF ~Running(p) THEN p ELSE [p EXCEPT !.stack[Len(p.stack)].pc = pc]
CallFn(p, cont, callee) ==
    IF ~Running(p) THEN p
    ELSE [p EXCEPT !.stack = Append([@ EXCEPT ![Len(@)].pc = cont],
                                    Frame(callee, p.cursor))]
Return(p, n) ==
    IF ~Running(p) THEN p
    ELSE [p EXCEPT !.stack = SubSeq(@, 1, Len(@) - 1), !.ret = n]
SetNode(p, n) ==
    IF ~Running(p) THEN p ELSE [p EXCEPT !.stack[Len(p.stack)].node = n]
SetNodes(p, ns) ==
    IF ~Running(p) THEN p ELSE [p EXCEPT !.stack[Len(p.stack)].nodes = ns]
SetOp(p, op) ==
    IF ~Running(p) THEN p ELSE [p EXCEPT !.stack[Len(p.stack)].op = op]

(***************************************************************************)
(* Token consumption primitives.                                           *)
(***************************************************************************)
\* consume without the kind test: any token whose raw text is op matches.
consume_anykind(p, op) ==
    IF ~Running(p) THEN [ok |-> FALSE, p |-> p]
    ELSE IF ~InBounds(p) THEN [ok |-> FALSE, p |-> IndexPanic(p)]
    ELSE LET token == TokAt(p) IN
         IF token.raw_str # op
         THEN [ok |-> FALSE, p |-> Log(p, "consume", op, FALSE)]
         ELSE [ok |-> TRUE,
               p |-> [Log(p, "consume", op, TRUE) EXCEPT !.cursor = @ + 1]]

consume(p, op) ==
    IF ~Running(p) THEN [ok |-> FALSE, p |-> p]
    ELSE IF ~InBounds(p) THEN [ok |-> FALSE, p |-> IndexPanic(p)]
    ELSE LET token == TokAt(p) IN
         IF token.kind # "Reserved" \/ token.raw_str # op
         THEN [ok |-> FALSE, p |-> Log(p, "consume", op, FALSE)]
         ELSE [ok |-> TRUE,
               p |-> [Log(p, "consume", op, TRUE) EXCEPT !.cursor = @ + 1]]

error_at(p, message) ==
    [p EXCEPT !.status = "fatal",
              !.diag = [caret |-> p.cursor, message |-> message]]

\* expect with cursor += 1 ahead of the test: a mismatch still advances.
expect_advancing(p, op) ==
    IF ~Running(p) THEN p
    ELSE IF ~InBounds(p) THEN IndexPanic(p)
    ELSE LET token == TokAt(p) IN
         IF token.kind # "Reserved" \/ token.raw_str # op
         THEN [error_at(Log(p, "expect", op, FALSE), "expected_token")
                  EXCEPT !.cursor = @ + 1]
         ELSE [Log(p, "expect", op, TRUE) EXCEPT !.cursor = @ + 1]

expect(p, op) ==
    IF ~Running(p) THEN p
    ELSE IF ~InBounds(p) THEN IndexPanic(p)
    ELSE LET token == TokAt(p) IN
         IF token.kind # "Reserved" \/ token.raw_str # op
         THEN error_at(Log(p, "expect", op, FALSE), "expected_token")
         ELSE [Log(p, "expect", op, TRUE) EXCEPT !.cursor = @ + 1]

expect_number(p) ==
    IF ~Running(p) THEN [value |-> 0, p |-> p]
    ELSE IF ~InBounds(p) THEN [value |-> 0, p |-> IndexPanic(p)]
    ELSE LET token == TokAt(p) IN
         IF token.kind = "Num"
         THEN [value |-> token.val,
               p |-> [Log(p, "expect_number", "", TRUE) EXCEPT !.cursor = @ + 1]]
         ELSE [value |-> 0,
               p |-> error_at(Log(p, "expect_number", "", FALSE), "expected_number")]

at_eof(p) == TokAt(p).kind = "Eof"

(***************************************************************************)
(* parse                                                                   *)
(***************************************************************************)
parse(p) == CallFn(expect(p, "{"), "parse_ret", "compound_stmt")

parse_ret(p) ==
    [p EXCEPT !.status = "returned",
              !.result = [node |-> p.ret, locals |-> p.locals],
              !.stack = <<>>]

(***************************************************************************)
(* stmt                                                                    *)
(***************************************************************************)
stmt(p) ==
    LET c1 == consume(p, "return") IN
    IF c1.ok THEN CallFn(c1.p, "stmt_return", "expr") ELSE
    LET c2 == consume(c1.p, "if") IN
    IF c2.ok THEN Goto(c2.p, "stmt_if") ELSE
    LET c3 == consume(c2.p, "for") IN
    IF c3.ok THEN Goto(c3.p, "stmt_for") ELSE
    LET c4 == consume(c3.p, "while") IN
    IF c4.ok THEN Goto(c4.p, "stmt_while") ELSE
    LET c5 == consume(c4.p, "{") IN
    IF c5.ok THEN CallFn(c5.p, "stmt_block", "compound_stmt")
    ELSE CallFn(c5.p, "stmt_expr", "expr_stmt")

stmt_return(p) ==
    LET node == Node(Kind("Return"), p.ret, None) IN
    Return(expect(p, ";"), node)

stmt_if(p) == CallFn(expect(p, "("), "stmt_if_cond", "expr")

stmt_if_cond(p) ==
    LET cond == p.ret IN
    CallFn(SetNodes(expect(p, ")"), <<cond>>), "stmt_if_then", "stmt")

stmt_if_then(p) ==
    LET cond == Top(p).nodes[1]
        then == p.ret
        c == consume(p, "else")
    IN  IF c.ok THEN CallFn(SetNodes(c.p, <<cond, then>>), "stmt_if_else", "stmt")
        ELSE Return(c.p, IfNode(cond, then, None))

stmt_if_else(p) ==
    Return(p, IfNode(Top(p).nodes[1], Top(p).nodes[2], p.ret))

stmt_for(p) == CallFn(expect(p, "("), "stmt_for_init", "expr_stmt")

stmt_for_init(p) ==
    LET init == p.ret
        c == consume(SetNodes(p, <<init, None, None>>), ";")
    IN  IF ~c.ok THEN CallFn(c.p, "stmt_for_cond", "expr")
        ELSE Goto(c.p, "stmt_for_inc")

stmt_for_cond(p) ==
    LET cond == p.ret IN
    Goto(SetNodes(expect(p, ";"), <<Top(p).nodes[1], cond, None>>), "stmt_for_inc")

stmt_for_inc(p) ==
    LET c == consume(p, ")") IN
    IF ~c.ok THEN CallFn(c.p, "stmt_for_incr", "expr")
    ELSE CallFn(c.p, "stmt_for_then", "stmt")

stmt_for_incr(p) ==
    LET inc == p.ret IN
    CallFn(SetNodes(expect(p, ")"), <<Top(p).nodes[1], Top(p).nodes[2], inc>>),
           "stmt_for_then", "stmt")

stmt_for_then(p) ==
    Return(p, ForNode(Top(p).nodes[1], Top(p).nodes[2], Top(p).nodes[3], p.ret))

stmt_while(p) == CallFn(expect(p, "("), "stmt_while_cond", "expr")

stmt_while_cond(p) ==
    LET cond == p.ret IN
    CallFn(SetNodes(expect(p, ")"), <<cond>>), "stmt_while_then", "stmt")

\* The while branch built like `for (;cond;)`: init is the empty Block.
stmt_while_then_with_init(p) ==
    Return(p, ForNode(Block(<<>>), Top(p).nodes[1], None, p.ret))

stmt_while_then(p) ==
    Return(p, ForNode(None, Top(p).nodes[1], None, p.ret))

stmt_block(p) == Return(p, p.ret)

stmt_expr(p) == Return(p, p.ret)

(***************************************************************************)
(* compound_stmt, expr_stmt                                                *)
(***************************************************************************)
compound_stmt(p) ==
    LET c == consume(p, "}") IN
    IF c.ok THEN Return(c.p, Block(Top(p).nodes))
    ELSE CallFn(c.p, "compound_stmt_push", "stmt")

compound_stmt_push(p) ==
    Goto(SetNodes(p, Append(Top(p).nodes, p.ret)), "compound_stmt")

\* expr_stmt that sees the `;` without consuming it.
expr_stmt_peek(p) ==
    LET c == consume(p, ";") IN
    IF c.ok THEN Return([c.p EXCEPT !.cursor = p.cursor], Block(<<>>))
    ELSE CallFn(c.p, "expr_stmt_end", "expr")

\* expr_stmt that wraps the empty statement in an ExprStmt.
expr_stmt_wrap(p) ==
    LET c == consume(p, ";") IN
    IF c.ok THEN Return(c.p, Node(Kind("ExprStmt"), None, None))
    ELSE CallFn(c.p, "expr_stmt_end", "expr")

expr_stmt(p) ==
    LET c == consume(p, ";") IN
    IF c.ok THEN Return(c.p, Block(<<>>))
    ELSE CallFn(c.p, "expr_stmt_end", "expr")

expr_stmt_end(p) ==
    LET node == Node(Kind("ExprStmt"), p.ret, None) IN
    Return(expect(p, ";"), node)

(***************************************************************************)
(* The expression precedence chain.  A binary level's frame keeps the node *)
(* built so far (node) and the operator whose right operand is being       *)
(* parsed (op, "" while the first operand is).                             *)
(***************************************************************************)
expr(p) == Goto(p, "assign")

assign(p) == CallFn(p, "assign_eq", "equality")

assign_eq(p) ==
    LET node == p.ret
        c == consume(p, "=")
    IN  IF c.ok THEN CallFn(SetNode(c.p, node), "assign_rhs", "assign")
        ELSE Return(c.p, node)

assign_rhs(p) == Return(p, Node(Kind("Assign"), Top(p).node, p.ret))

equality(p) == CallFn(p, "equality_loop", "relational")

equality_fold(op, node, rhs) ==
    CASE op = "" -> rhs
      [] op = "==" -> Node(Kind("Eq"), node, rhs)
      [] op = "!=" -> Node(Kind("Ne"), node, rhs)

equality_loop(p) ==
    LET node == equality_fold(Top(p).op, Top(p).node, p.ret)
        c1 == consume(p, "==")
    IN  IF c1.ok
        THEN CallFn(SetOp(SetNode(c1.p, node), "=="), "equality_loop", "relational")
        ELSE
    LET c2 == consume(c1.p, "!=") IN
        IF c2.ok
        THEN CallFn(SetOp(SetNode(c2.p, node), "!="), "equality_loop", "relational")
        ELSE Return(c2.p, node)

relational(p) == CallFn(p, "relational_loop", "add")

\* relational that keeps the operands of > and >= in source order.
relational_fold_noswap(op, node, rhs) ==
    CASE op = "" -> rhs
      [] op = "<" -> Node(Kind("Lt"), node, rhs)
      [] op = "<=" -> Node(Kind("Le"), node, rhs)
      [] op = ">" -> Node(Kind("Lt"), node, rhs)
      [] op = ">=" -> Node(Kind("Le"), node, rhs)

relational_fold(op, node, rhs) ==
    CASE op = "" -> rhs
      [] op = "<" -> Node(Kind("Lt"), node, rhs)
      [] op = "<=" -> Node(Kind("Le"), node, rhs)
      [] op = ">" -> Node(Kind("Lt"), rhs, node)
      [] op = ">=" -> Node(Kind("Le"), rhs, node)

relational_loop(p) ==
    LET node == relational_fold(Top(p).op, Top(p).node, p.ret)
        c1 == consume(p, "<")
    IN  IF c1.ok
        THEN CallFn(SetOp(SetNode(c1.p, node), "<"), "relational_loop", "add")
        ELSE
    LET c2 == consume(c1.p, "<=") IN
        IF c2.ok
        THEN CallFn(SetOp(SetNode(c2.p, node), "<="), "relational_loop", "add")
        ELSE
    LET c3 == consume(c2.p, ">") IN
        IF c3.ok
        THEN CallFn(SetOp(SetNode(c3.p, node), ">"), "relational_loop", "add")
        ELSE
    LET c4 == consume(c3.p, ">=") IN
        IF c4.ok
        THEN CallFn(SetOp(SetNode(c4.p, node), ">="), "relational_loop", "add")
        ELSE Return(c4.p, node)

add(p) == CallFn(p, "add_loop", "mul")

add_fold(op, node, rhs) ==
    CASE op = "" -> rhs
      [] op = "+" -> Node(Kind("Add"), node, rhs)
      [] op = "-" -> Node(Kind("Sub"), node, rhs)

\* add whose right operand is parsed by unary: * and / bind no tighter.
add_loop_flat(p) ==
    LET node == add_fold(Top(p).op, Top(p).node, p.ret)
        c1 == consume(p, "+")
    IN  IF c1.ok
        THEN CallFn(SetOp(SetNode(c1.p, node), "+"), "add_loop", "unary")
        ELSE
    LET c2 == consume(c1.p, "-") IN
        IF c2.ok
        THEN CallFn(SetOp(SetNode(c2.p, node), "-"), "add_loop", "unary")
        ELSE Return(c2.p, node)

add_loop(p) ==
    LET node == add_fold(Top(p).op, Top(p).node, p.ret)
        c1 == consume(p, "+")
    IN  IF c1.ok
        THEN CallFn(SetOp(SetNode(c1.p, node), "+"), "add_loop", "mul")
        ELSE
    LET c2 == consume(c1.p, "-") IN
        IF c2.ok
        THEN CallFn(SetOp(SetNode(c2.p, node), "-"), "add_loop", "mul")
        ELSE Return(c2.p, node)

mul(p) == CallFn(p, "mul_loop", "unary")

mul_fold(op, node, rhs) ==
    CASE op = "" -> rhs
      [] op = "*" -> Node(Kind("Mul"), node, rhs)
      [] op = "/" -> Node(Kind("Div"), node, rhs)

mul_loop(p) ==
    LET node == mul_fold(Top(p).op, Top(p).node, p.ret)
        c1 == consume(p, "*")
    IN  IF c1.ok
        THEN CallFn(SetOp(SetNode(c1.p, node), "*"), "mul_loop", "unary")
        ELSE
    LET c2 == consume(c1.p, "/") IN
        IF c2.ok
        THEN CallFn(SetOp(SetNode(c2.p, node), "/"), "mul_loop", "unary")
        ELSE Return(c2.p, node)

unary(p) ==
    LET c1 == consume(p, "+") IN
    IF c1.ok THEN Goto(c1.p, "unary") ELSE
    LET c2 == consume(c1.p, "-") IN
    IF c2.ok THEN CallFn(c2.p, "unary_neg", "unary")
    ELSE Goto(c2.p, "primary")

unary_neg(p) == Return(p, Node(Kind("Sub"), Num(0), p.ret))

\* primary that builds the Var without registering its name.
primary_no_insert(p) ==
    LET c == consume(p, "(") IN
    IF c.ok THEN CallFn(c.p, "primary_paren", "expr")
    ELSE IF ~Running(c.p) THEN c.p
    ELSE LET token == TokAt(c.p) IN
         IF token.kind = "Ident"
         THEN Return([Log(c.p, "ident", token.raw_str, TRUE)
                         EXCEPT !.cursor = @ + 1],
                     Var(token.raw_str))
         ELSE LET n == expect_number(c.p) IN Return(n.p, Num(n.value))

\* primary that takes every token that is not a number for an identifier.
primary_not_num(p) ==
    LET c == consume(p, "(") IN
    IF c.ok THEN CallFn(c.p, "primary_paren", "expr")
    ELSE IF ~Running(c.p) THEN c.p
    ELSE LET token == TokAt(c.p) IN
         IF token.kind # "Num"
         THEN Return([Log(c.p, "ident", token.raw_str, TRUE)
                         EXCEPT !.locals = @ \cup {token.raw_str},
                                !.cursor = @ + 1],
                     Var(token.raw_str))
         ELSE LET n == expect_number(c.p) IN Return(n.p, Num(n.value))

primary(p) ==
    LET c == consume(p, "(") IN
    IF c.ok THEN CallFn(c.p, "primary_paren", "expr")
    ELSE IF ~Running(c.p) THEN c.p
    ELSE LET token == TokAt(c.p) IN
         IF token.kind = "Ident"
         THEN Return([Log(c.p, "ident", token.raw_str, TRUE)
                         EXCEPT !.locals = @ \cup {token.raw_str},
                                !.cursor = @ + 1],
                     Var(token.raw_str))
         ELSE LET n == expect_number(c.p) IN Return(n.p, Num(n.value))

primary_paren(p) ==
    LET node == p.ret IN
    Return(expect(p, ")"), node)

(***************************************************************************)
(* One step of the parser: the procedure on top of the call stack runs     *)
(* from its resume point.  RunParser is a whole run of Parser::new(..)     *)
(* followed by parse().                                                    *)
(***************************************************************************)
Begin(p) == [p EXCEPT !.calls = <<>>, !.steps = @ + 1]

Handler(pc, p) ==
    CASE pc = "parse" -> parse(p)
      [] pc = "parse_ret" -> parse_ret(p)
      [] pc = "stmt" -> stmt(p)
      [] pc = "stmt_return" -> stmt_return(p)
      [] pc = "stmt_if" -> stmt_if(p)
      [] pc = "stmt_if_cond" -> stmt_if_cond(p)
      [] pc = "stmt_if_then" -> stmt_if_then(p)
      [] pc = "stmt_if_else" -> stmt_if_else(p)
      [] pc = "stmt_for" -> stmt_for(p)
      [] pc = "stmt_for_init" -> stmt_for_init(p)
      [] pc = "stmt_for_cond" -> stmt_for_cond(p)
      [] pc = "stmt_for_inc" -> stmt_for_inc(p)
      [] pc = "stmt_for_incr" -> stmt_for_incr(p)
      [] pc = "stmt_for_then" -> stmt_for_then(p)
      [] pc = "stmt_while" -> stmt_while(p)
      [] pc = "stmt_while_cond" -> stmt_while_cond(p)
      [] pc = "stmt_while_then" -> stmt_while_then(p)
      [] pc = "stmt_block" -> stmt_block(p)
      [] pc = "stmt_expr" -> stmt_expr(p)
      [] pc = "compound_stmt" -> compound_stmt(p)
      [] pc = "compound_stmt_push" -> compound_stmt_push(p)
      [] pc = "expr_stmt" -> expr_stmt(p)
      [] pc = "expr_stmt_end" -> expr_stmt_end(p)
      [] pc = "expr" -> expr(p)
      [] pc = "assign" -> assign(p)
      [] pc = "assign_eq" -> assign_eq(p)
      [] pc = "assign_rhs" -> assign_rhs(p)
      [] pc = "equality" -> equality(p)
      [] pc = "equality_loop" -> equality_loop(p)
      [] pc = "relational" -> relational(p)
      [] pc = "relational_loop" -> relational_loop(p)
      [] pc = "add" -> add(p)
      [] pc = "add_loop" -> add_loop(p)
      [] pc = "mul" -> mul(p)
      [] pc = "mul_loop" -> mul_loop(p)
      [] pc = "unary" -> unary(p)
      [] pc = "unary_neg" -> unary_neg(p)
      [] pc = "primary" -> primary(p)
      [] pc = "primary_paren" -> primary_paren(p)

Step(p) == Handler(Top(p).pc, Begin(p))

RECURSIVE RunParser(_)
RunParser(p) == IF ~Running(p) THEN p ELSE RunParser(Step(p))

Cur ==
    [tokens |-> tokens, cursor |-> cursor, locals |-> locals, stack |-> stack,
     ret |-> ret, status |-> status, result |-> result, diag |-> diag,
     calls |-> calls, steps |-> steps]

\* The step's outcome q becomes the next state.
Set(q) ==
    \E r \in {q} :
        /\ tokens' = r.tokens
        /\ cursor' = r.cursor
        /\ locals' = r.locals
        /\ stack' = r.stack
        /\ ret' = r.ret
        /\ status' = r.status
        /\ result' = r.result
        /\ diag' = r.diag
        /\ calls' = r.calls
        /\ steps' = r.steps

At(pc) == status = "running" /\ stack # <<>> /\ Top(Cur).pc = pc

Do_parse == At("parse") /\ Set(parse(Begin(Cur)))
Do_parse_ret == At("parse_ret") /\ Set(parse_ret(Begin(Cur)))
Do_stmt == At("stmt") /\ Set(stmt(Begin(Cur)))
Do_stmt_return == At("stmt_return") /\ Set(stmt_return(Begin(Cur)))
Do_stmt_if == At("stmt_if") /\ Set(stmt_if(Begin(Cur)))
Do_stmt_if_cond == At("stmt_if_cond") /\ Set(stmt_if_cond(Begin(Cur)))
Do_stmt_if_then == At("stmt_if_then") /\ Set(stmt_if_then(Begin(Cur)))
Do_stmt_if_else == At("stmt_if_else") /\ Set(stmt_if_else(Begin(Cur)))
Do_stmt_for == At("stmt_for") /\ Set(stmt_for(Begin(Cur)))
Do_stmt_for_init == At("stmt_for_init") /\ Set(stmt_for_init(Begin(Cur)))
Do_stmt_for_cond == At("stmt_for_cond") /\ Set(stmt_for_cond(Begin(Cur)))
Do_stmt_for_inc == At("stmt_for_inc") /\ Set(stmt_for_inc(Begin(Cur)))
Do_stmt_for_incr == At("stmt_for_incr") /\ Set(stmt_for_incr(Begin(Cur)))
Do_stmt_for_then == At("stmt_for_then") /\ Set(stmt_for_then(Begin(Cur)))
Do_stmt_while == At("stmt_while") /\ Set(stmt_while(Begin(Cur)))
Do_stmt_while_cond == At("stmt_while_cond") /\ Set(stmt_while_cond(Begin(Cur)))
Do_stmt_while_then == At("stmt_while_then") /\ Set(stmt_while_then(Begin(Cur)))
Do_stmt_block == At("stmt_block") /\ Set(stmt_block(Begin(Cur)))
Do_stmt_expr == At("stmt_expr") /\ Set(stmt_expr(Begin(Cur)))
Do_compound_stmt == At("compound_stmt") /\ Set(compound_stmt(Begin(Cur)))
Do_compound_stmt_push == At("compound_stmt_push") /\ Set(compound_stmt_push(Begin(Cur)))
Do_expr_stmt == At("expr_stmt") /\ Set(expr_stmt(Begin(Cur)))
Do_expr_stmt_end == At("expr_stmt_end") /\ Set(expr_stmt_end(Begin(Cur)))
Do_expr == At("expr") /\ Set(expr(Begin(Cur)))
Do_assign == At("assign") /\ Set(assign(Begin(Cur)))
Do_assign_eq == At("assign_eq") /\ Set(assign_eq(Begin(Cur)))
Do_assign_rhs == At("assign_rhs") /\ Set(assign_rhs(Begin(Cur)))
Do_equality == At("equality") /\ Set(equality(Begin(Cur)))
Do_equality_loop == At("equality_loop") /\ Set(equality_loop(Begin(Cur)))
Do_relational == At("relational") /\ Set(relational(Begin(Cur)))
Do_relational_loop == At("relational_loop") /\ Set(relational_loop(Begin(Cur)))
Do_add == At("add") /\ Set(add(Begin(Cur)))
Do_add_loop == At("add_loop") /\ Set(add_loop(Begin(Cur)))
Do_mul == At("mul") /\ Set(mul(Begin(Cur)))
Do_mul_loop == At("mul_loop") /\ Set(mul_loop(Begin(Cur)))
Do_unary == At("unary") /\ Set(unary(Begin(Cur)))
Do_unary_neg == At("unary_neg") /\ Set(unary_neg(Begin(Cur)))
Do_primary == At("primary") /\ Set(primary(Begin(Cur)))
Do_primary_paren == At("primary_paren") /\ Set(primary_paren(Begin(Cur)))

Next ==
    \/ Do_parse
    \/ Do_parse_ret
    \/ Do_stmt
    \/ Do_stmt_return
    \/ Do_stmt_if
    \/ Do_stmt_if_cond
    \/ Do_stmt_if_then
    \/ Do_stmt_if_else
    \/ Do_stmt_for
    \/ Do_stmt_for_init
    \/ Do_stmt_for_cond
    \/ Do_stmt_for_inc
    \/ Do_stmt_for_incr
    \/ Do_stmt_for_then
    \/ Do_stmt_while
    \/ Do_stmt_while_cond
    \/ Do_stmt_while_then
    \/ Do_stmt_block
    \/ Do_stmt_expr
    \/ Do_compound_stmt
    \/ Do_compound_stmt_push
    \/ Do_expr_stmt
    \/ Do_expr_stmt_end
    \/ Do_expr
    \/ Do_assign
    \/ Do_assign_eq
    \/ Do_assign_rhs
    \/ Do_equality
    \/ Do_equality_loop
    \/ Do_relational
    \/ Do_relational_loop
    \/ Do_add
    \/ Do_add_loop
    \/ Do_mul
    \/ Do_mul_loop
    \/ Do_unary
    \/ Do_unary_neg
    \/ Do_primary
    \/ Do_primary_paren

(***************************************************************************)
(* Inputs: token streams ending in exactly one end-of-input token.         *)
(***************************************************************************)
ReservedWords ==
    {"return", "if", "else", "for", "while", "{", "}", "(", ")", ";",
     "=", "==", "!=", "<", "<=", ">", ">=", "+", "-", "*", "/"}

\* The lexer's classification of one lexeme.
Lex(s) ==
    CASE s \in ReservedWords -> Reserved(s)
      [] s = "0" -> Number(0, s)
      [] s = "1" -> Number(1, s)
      [] s = "2" -> Number(2, s)
      [] s = "3" -> Number(3, s)
      [] OTHER -> Ident(s)

Toks(ss) == [i \in 1..Len(ss) |-> Lex(ss[i])]

RECURSIVE Concat(_)
Concat(seqs) == IF seqs = <<>> THEN <<>> ELSE Head(seqs) \o Concat(Tail(seqs))

SeqsUpTo(S, n) == UNION {[1..k -> S] : k \in 0..n}

\* Any tokens at all, also an identifier and a number whose raw text is that
\* of a reserved token.
MaxAnyLen == 2
Alphabet ==
    {Reserved(s) : s \in ReservedWords}
        \cup {Ident("a"), Ident("b"), Ident("if"), Number(1, "1"), Number(2, "2"),
              Number(1, "(")}
AnyStreams == {s \o <<Eof>> : s \in SeqsUpTo(Alphabet, MaxAnyLen)}

\* Function bodies over a few tokens, closed or not.
MaxBodyLen == 4
BodyAlphabet == {Lex(s) : s \in {";", "{", "}", "a", "1", "+"}}
BodyStreams ==
    {<<Reserved("{")>> \o s \o <<Eof>> : s \in SeqsUpTo(BodyAlphabet, MaxBodyLen)}

\* { e ; } with e = operand (operator operand)*.
MaxOps == 2
BinaryOps == {"=", "==", "!=", "<", "<=", ">", ">=", "+", "-", "*", "/"}
Operands == <<"a", "1", "b", "2", "c", "3">>
Operand(i) == Operands[((i - 1) % Len(Operands)) + 1]
FlatExpr(ops) ==
    <<Lex(Operand(1))>>
        \o Concat([i \in 1..Len(ops) |-> <<Reserved(ops[i]), Lex(Operand(i + 1))>>])
ExprStreams ==
    {<<Reserved("{")>> \o FlatExpr(ops) \o Toks(<<";", "}">>) \o <<Eof>> :
        ops \in SeqsUpTo(BinaryOps, MaxOps)}

\* { s1 .. sn } with each s a statement of the pool.
MaxStmts == 1
CorePool ==
    {<<";">>,
     <<"return", "-", "a", ";">>,
     <<"if", "(", "a", "<", "1", ")", "a", "=", "1", ";", "else", "b", "=", "2", ";">>,
     <<"for", "(", "a", "=", "1", ";", "a", "<", "2", ";", "a", "=", "a", "+", "1", ")",
       "b", "=", "a", ";">>,
     <<"while", "(", "(", "a", ")", ")", "{", "}">>}
StmtPool ==
    CorePool \cup
    {<<"{", "}">>,
     <<"a", "=", "1", ";">>,
     <<"a", "=", "a", "+", "1", ";">>,
     <<"return", "a", ";">>,
     <<"-", "a", ";">>,
     <<"+", "(", "a", "*", "2", ")", ";">>,
     <<"if", "(", "a", ")", ";">>,
     <<"for", "(", ";", ";", ")", ";">>,
     <<"for", "(", ";", "a", ";", ")", "a", "=", "1", ";">>,
     <<"while", "(", "a", ")", ";">>,
     <<"while", "(", "a", "<", "2", ")", "a", "=", "a", "+", "1", ";">>,
     <<"while", "(", "1", ")", "if", "(", "a", ")", "return", "a", ";">>}
ProgramsOver(pool) ==
    {<<Reserved("{")>> \o Toks(Concat(ss)) \o <<Reserved("}"), Eof>> :
        ss \in SeqsUpTo(pool, MaxStmts)}
Programs == ProgramsOver(StmtPool)

\* The programs the parser's documentation works through.
Program(ss) == Toks(ss) \o <<Eof>>
Examples ==
    {Program(<<"{", "1", "+", "2", "*", "3", ";", "}">>),
     Program(<<"{", "1", "-", "2", "-", "3", ";", "}">>),
     Program(<<"{", "a", "=", "b", "=", "3", ";", "}">>),
     Program(<<"{", "a", ">", "1", ";", "}">>),
     Program(<<"{", "1", "<", "a", ";", "}">>),
     Program(<<"{", "a", "=", "1", ";", "a", "=", "a", "+", "1", ";", "b", "=", "2", ";", "}">>),
     Program(<<"{", ";", "}">>),
     Program(<<"{", "{", "}", "}">>),
     Program(<<"{", "1", "+", ";", "}">>),
     Program(<<"{", "a", ";">>)}

Inputs == AnyStreams \cup BodyStreams \cup ExprStreams \cup Programs \cup Examples

Start(q) ==
    /\ tokens = q.tokens
    /\ cursor = q.cursor
    /\ locals = q.locals
    /\ stack = q.stack
    /\ ret = q.ret
    /\ status = q.status
    /\ result = q.result
    /\ diag = q.diag
    /\ calls = q.calls
    /\ steps = q.steps

Init == \E toks \in Inputs : Start(new(toks))

Spec == Init /\ [][Next]_vars

\* parse() is one uninterrupted, synchronous call chain: whenever it can take
\* a step it takes one.
LiveInputs == Examples \cup ProgramsOver(CorePool)
LiveInit == \E toks \in LiveInputs : Start(new(toks))
LiveSpec == LiveInit /\ [][Next]_vars /\ WF_vars(Next)

(***************************************************************************)
(* Reading trees and token streams.                                        *)
(***************************************************************************)
IsNone(x) == "tag" \in DOMAIN x

Children(n) ==
    LET k == n.kind
        own == CASE k.tag = "Block" -> k.nodes
                 [] k.tag = "If" -> <<k.cond, k.then, k.els>>
                 [] k.tag = "For" -> <<k.init, k.cond, k.inc, k.then>>
                 [] OTHER -> <<>>
    IN  SelectSeq(own \o <<n.lhs, n.rhs>>, LAMBDA c : ~IsNone(c))

RECURSIVE VarNames(_)
VarNames(n) ==
    (IF n.kind.tag = "Var" THEN {n.kind.name} ELSE {})
        \cup UNION {VarNames(Children(n)[i]) : i \in 1..Len(Children(n))}

RECURSIVE Tags(_)
Tags(n) == {n.kind.tag} \cup UNION {Tags(Children(n)[i]) : i \in 1..Len(Children(n))}

Returned == status = "returned"
Halted == status # "running"
Body == result.node.kind.nodes
IsReserved(t, ops) == t.kind = "Reserved" /\ t.raw_str \in ops
IsOperand(t) == t.kind \in {"Ident", "Num"}
Min(S) == CHOOSE x \in S : \A y \in S : x <= y
Max(S) == CHOOSE x \in S : \A y \in S : x >= y

\* e is operand (op operand)* with every op in ops.
IsFlat(e, ops) ==
    /\ Len(e) % 2 = 1
    /\ \A i \in 1..Len(e) :
          IF i % 2 = 1 THEN IsOperand(e[i]) ELSE IsReserved(e[i], ops)

\* The stream is { e ; } and end-of-input; ExprToks is e.
IsExprProgram ==
    /\ Len(tokens) >= 5
    /\ tokens[1] = Reserved("{")
    /\ tokens[Len(tokens) - 2] = Reserved(";")
    /\ tokens[Len(tokens) - 1] = Reserved("}")
ExprToks == SubSeq(tokens, 2, Len(tokens) - 3)
ExprProgram(e) == <<Reserved("{")>> \o e \o <<Reserved(";"), Reserved("}"), Eof>>
\* The tree expr() builds for e, by a run of the parser on { e ; }.
ParsedExpr(e) == RunParser(new(ExprProgram(e))).result.node.kind.nodes[1].lhs

(***************************************************************************)
(* C1 as stated: `while (cond) body` and `for (;cond;) body` parse to      *)
(* identical For nodes, init and increment absent in both.                 *)
(***************************************************************************)
RECURSIVE CloseParen(_, _, _)
\* The index of the ")" closing the "(" before index i (0 if there is none).
CloseParen(toks, i, depth) ==
    IF i > Len(toks) THEN 0
    ELSE IF IsReserved(toks[i], {"("}) THEN CloseParen(toks, i + 1, depth + 1)
    ELSE IF IsReserved(toks[i], {")"})
         THEN IF depth = 0 THEN i ELSE CloseParen(toks, i + 1, depth - 1)
    ELSE CloseParen(toks, i + 1, depth)

\* The function body opens with `while ( cond ) ...`.
IsWhileProgram ==
    /\ Len(tokens) >= 4
    /\ tokens[1] = Reserved("{")
    /\ tokens[2] = Reserved("while")
    /\ tokens[3] = Reserved("(")
    /\ CloseParen(tokens, 4, 0) # 0

\* The same program with `for ( ; cond ; ) ...` for the `while ( cond ) ...`.
ForForm ==
    LET k == CloseParen(tokens, 4, 0) IN
    <<tokens[1], Reserved("for"), tokens[3], Reserved(";")>>
        \o SubSeq(tokens, 4, k - 1) \o <<Reserved(";")>>
        \o SubSeq(tokens, k, Len(tokens))

ForRun == RunParser(new(ForForm))

C1_WhileParsesAsFor ==
    (Returned /\ IsWhileProgram) =>
        /\ ForRun.status = "returned"
        /\ ForRun.result.node = result.node
        /\ IsNone(Body[1].kind.init)
        /\ IsNone(Body[1].kind.inc)

(***************************************************************************)
(* C1 as amended: the two For nodes have the same cond and body subtrees   *)
(* and no increment, and the same locals; init is absent for `while` and   *)
(* is the empty Block for `for (;cond;)`.                                  *)
(***************************************************************************)
C1_WhileParsesAsForButInit ==
    (Returned /\ IsWhileProgram) =>
        LET w == Body[1]
            f == ForRun.result.node.kind.nodes[1]
        IN  /\ ForRun.status = "returned"
            /\ w.kind.tag = "For" /\ f.kind.tag = "For"
            /\ IsNone(w.kind.init)
            /\ f.kind.init = Block(<<>>)
            /\ IsNone(w.kind.inc) /\ IsNone(f.kind.inc)
            /\ ~IsNone(w.kind.cond)
            /\ w.kind.cond = f.kind.cond
            /\ w.kind.then = f.kind.then
            /\ [f EXCEPT !.kind.init = None] = w
            /\ Tail(ForRun.result.node.kind.nodes) = Tail(Body)
            /\ ForRun.result.locals = result.locals

C1_Witness ==
    /\ Returned /\ IsWhileProgram
    /\ Body[1].kind.cond.kind.tag = "Lt"
    /\ Body[1].kind.then.kind.tag = "ExprStmt"

(***************************************************************************)
(* C2: parse() returns only with the cursor at the end-of-input token.     *)
(***************************************************************************)
C2_ReturnsAtEof == Returned => (InBounds(Cur) /\ at_eof(Cur))

(***************************************************************************)
(* C3: at every step locals is the set of raw texts of the identifier      *)
(* tokens below the cursor and never loses an element; when parse()        *)
(* returns, Function.locals is that set and is exactly the set of names of *)
(* the Var nodes of the tree.                                              *)
(***************************************************************************)
IdentsBelowCursor ==
    {tokens[i].raw_str : i \in {j \in 1..cursor : tokens[j].kind = "Ident"}}

C3_LocalsState ==
    /\ locals = IdentsBelowCursor
    /\ Returned => /\ result.locals = locals
                   /\ result.locals = VarNames(result.node)

C3_Locals == [](C3_LocalsState) /\ [][locals \subseteq locals']_vars

C3_Witness ==
    /\ Returned
    /\ Cardinality(result.locals) = 2
    /\ Cardinality({j \in 1..cursor : tokens[j].kind = "Ident"}) >= 4

(***************************************************************************)
(* C4: a failed require(op) or require_number() halts the parse in the     *)
(* fatal state with the cursor at the offending token; the halting step    *)
(* consumes nothing, nothing happens after it, and no Function is          *)
(* returned.  `{ 1 + ; }` halts at the `;`.                                *)
(***************************************************************************)
Mismatch(c) ==
    LET t == tokens[c.at + 1] IN
    \/ c.fn = "expect" /\ ~(t.kind = "Reserved" /\ t.raw_str = c.op)
    \/ c.fn = "expect_number" /\ t.kind # "Num"

OnePlusNothing == Program(<<"{", "1", "+", ";", "}">>)

C4_FatalState ==
    /\ \A i \in 1..Len(calls) :
          (calls[i].fn \in {"expect", "expect_number"} /\ ~calls[i].ok)
              => status = "fatal"
    /\ status = "fatal" =>
          /\ calls # <<>>
          /\ LET c == calls[Len(calls)] IN
                /\ ~c.ok /\ Mismatch(c)
                /\ c.at = cursor
          /\ diag.caret = cursor
          /\ IsNone(result)
    /\ (tokens = OnePlusNothing /\ Halted) =>
          /\ status = "fatal" /\ cursor = 3
          /\ diag.message = "expected_number"

C4_FailFast ==
    /\ [](C4_FatalState)
    /\ [][/\ status' = "fatal" => (cursor' = cursor /\ locals' = locals)
          /\ status = "fatal" => UNCHANGED vars]_vars

C4_Witness == tokens = OnePlusNothing /\ status = "fatal"

(***************************************************************************)
(* C5: for an expression operand (op operand)* over = == != < <= + - * /   *)
(* the tree of expr() is the tree of the reference parse: assignment binds *)
(* loosest and to the right, then equality, relational, additive and       *)
(* multiplicative, each folding to the left.                               *)
(***************************************************************************)
ClaimedOps == {"=", "==", "!=", "<", "<=", "+", "-", "*", "/"}
Levels == <<{"="}, {"==", "!="}, {"<", "<="}, {"+", "-"}, {"*", "/"}>>
OpKind(op) ==
    CASE op = "=" -> "Assign" [] op = "==" -> "Eq" [] op = "!=" -> "Ne"
      [] op = "<" -> "Lt" [] op = "<=" -> "Le" [] op = "+" -> "Add"
      [] op = "-" -> "Sub" [] op = "*" -> "Mul" [] op = "/" -> "Div"
Leaf(t) == IF t.kind = "Ident" THEN Var(t.raw_str) ELSE Num(t.val)
OpsAt(e, ops) == {i \in 1..Len(e) : IsReserved(e[i], ops)}

RECURSIVE RefExpr(_)
\* Split e at its loosest operator: the first `=`, else the last operator of
\* the loosest level present.
RefExpr(e) ==
    IF Len(e) = 1 THEN Leaf(e[1])
    ELSE LET lv == Min({l \in 1..Len(Levels) : OpsAt(e, Levels[l]) # {}})
             at == IF lv = 1 THEN Min(OpsAt(e, Levels[lv]))
                   ELSE Max(OpsAt(e, Levels[lv]))
         IN  Node(Kind(OpKind(e[at].raw_str)),
                  RefExpr(SubSeq(e, 1, at - 1)),
                  RefExpr(SubSeq(e, at + 1, Len(e))))

ExprStmtOf(e) == Block(<<Node(Kind("ExprStmt"), e, None)>>)
Bin(tag, l, r) == Node(Kind(tag), l, r)

C5_Precedence ==
    /\ (Halted /\ IsExprProgram /\ IsFlat(ExprToks, ClaimedOps)) =>
          /\ Returned
          /\ result.node = ExprStmtOf(RefExpr(ExprToks))
    /\ (Halted /\ tokens = Program(<<"{", "1", "+", "2", "*", "3", ";", "}">>)) =>
          result.node = ExprStmtOf(Bin("Add", Num(1), Bin("Mul", Num(2), Num(3))))
    /\ (Halted /\ tokens = Program(<<"{", "1", "-", "2", "-", "3", ";", "}">>)) =>
          result.node = ExprStmtOf(Bin("Sub", Bin("Sub", Num(1), Num(2)), Num(3)))
    /\ (Halted /\ tokens = Program(<<"{", "a", "=", "b", "=", "3", ";", "}">>)) =>
          result.node = ExprStmtOf(Bin("Assign", Var("a"), Bin("Assign", Var("b"), Num(3))))

C5_Witness ==
    /\ Returned /\ IsExprProgram /\ IsFlat(ExprToks, ClaimedOps)
    /\ Len(ExprToks) = 5
    /\ ExprToks[2].raw_str = "=" /\ ExprToks[4].raw_str = "+"

(***************************************************************************)
(* C6: for additive-level operands x and y, `x > y` parses to the tree of  *)
(* `y < x`, Lt(y, x), and `x >= y` to the tree of `y <= x`, Le(y, x);      *)
(* `<` and `<=` keep x on the left; every node kind of a returned tree is  *)
(* one of NodeKind, so the only comparisons are Eq, Ne, Lt, Le.            *)
(***************************************************************************)
RelOps == {"<", "<=", ">", ">="}
Mirror(op) == CASE op = ">" -> "<" [] op = ">=" -> "<=" [] op = "<" -> ">" [] op = "<=" -> ">="

\* The stream is { x op y ; } with x and y over + - * / and op relational.
IsRelProgram ==
    /\ IsExprProgram
    /\ IsFlat(ExprToks, {"+", "-", "*", "/"} \cup RelOps)
    /\ Cardinality(OpsAt(ExprToks, RelOps)) = 1
RelAt == CHOOSE i \in OpsAt(ExprToks, RelOps) : TRUE
RelX == SubSeq(ExprToks, 1, RelAt - 1)
RelY == SubSeq(ExprToks, RelAt + 1, Len(ExprToks))
RelOp == ExprToks[RelAt].raw_str

C6_RelationalCanonical ==
    /\ (Returned /\ IsRelProgram) =>
          LET e == Body[1].lhs
              x == ParsedExpr(RelX)
              y == ParsedExpr(RelY)
              m == RunParser(new(ExprProgram(RelY \o <<Reserved(Mirror(RelOp))>> \o RelX)))
          IN  /\ RelOp = ">" => e = Bin("Lt", y, x)
              /\ RelOp = ">=" => e = Bin("Le", y, x)
              /\ RelOp = "<" => e = Bin("Lt", x, y)
              /\ RelOp = "<=" => e = Bin("Le", x, y)
              /\ m.status = "returned" /\ m.result.node = result.node
    /\ Returned => Tags(result.node) \subseteq NodeKinds

C6_Witness ==
    /\ Returned /\ IsRelProgram
    /\ RelOp = ">" /\ Len(RelX) = 3

(***************************************************************************)
(* C7: `;` and `{}` parse without error, each to a Block of no statements  *)
(* and no ExprStmt node.                                                   *)
(***************************************************************************)
EmptyBlock == Block(<<>>)

C7_EmptyStatements ==
    /\ (Halted /\ tokens = Program(<<"{", ";", "}">>)) =>
          (Returned /\ result.node = Block(<<EmptyBlock>>))
    /\ (Halted /\ tokens = Program(<<"{", "{", "}", "}">>)) =>
          (Returned /\ result.node = Block(<<EmptyBlock>>))
    /\ (Halted /\ tokens = Program(<<"{", ";", "{", "}", "}">>)) =>
          (Returned /\ result.node = Block(<<EmptyBlock, EmptyBlock>>))
    /\ (Halted /\ tokens = Program(<<"{", "}">>)) =>
          (Returned /\ result.node = EmptyBlock)
    /\ (Returned /\ \A i \in 1..cursor : IsReserved(tokens[i], {";", "{", "}"})) =>
          Tags(result.node) = {"Block"}

C7_Witness ==
    /\ Returned
    /\ tokens = Program(<<"{", ";", "{", "}", "}">>)

(***************************************************************************)
(* C8: every step leaves the cursor or adds one to it.  try_consume(op)    *)
(* succeeds exactly when the token at the cursor is Reserved with raw text *)
(* op, and then the step adds one; a step whose primitives all fail leaves *)
(* cursor, locals and tokens as they were.                                 *)
(***************************************************************************)
C8_StepFrame ==
    /\ cursor' \in {cursor, cursor + 1}
    /\ tokens' = tokens
    /\ \A i \in 1..Len(calls') :
          LET c == calls'[i] IN
          /\ c.at = cursor
          /\ c.fn = "consume" =>
                (c.ok <=> (tokens[cursor + 1].kind = "Reserved"
                              /\ tokens[cursor + 1].raw_str = c.op))
          /\ c.ok => (i = Len(calls') /\ cursor' = cursor + 1)
    /\ (\A i \in 1..Len(calls') : ~calls'[i].ok) =>
          (cursor' = cursor /\ locals' = locals)

C8_CursorMonotone == [][C8_StepFrame]_vars

C8_Witness ==
    /\ cursor = 2
    /\ \E i \in 1..Len(calls) :
          /\ calls[i].fn = "consume" /\ ~calls[i].ok
          /\ tokens[calls[i].at + 1].kind = "Num"
          /\ tokens[calls[i].at + 1].raw_str = calls[i].op

(***************************************************************************)
(* C9: the cursor never passes the end-of-input token, no primitive ever   *)
(* consumes it, and no token access is out of range; the unterminated      *)
(* `{ a ;` ends in the fatal diagnostic at the end-of-input token.         *)
(***************************************************************************)
Unterminated == Program(<<"{", "a", ";">>)

C9_NeverPastEof ==
    /\ status # "oob"
    /\ cursor < Len(tokens)
    /\ \A i \in 1..cursor : tokens[i].kind # "Eof"
    /\ (Halted /\ tokens = Unterminated) =>
          (status = "fatal" /\ cursor = 3 /\ at_eof(Cur))

C9_Witness == tokens = Unterminated /\ status = "fatal" /\ at_eof(Cur)

(***************************************************************************)
(* C10: parse() eventually returns or halts with a fatal error.  Until     *)
(* then it always has a next step, and the number of steps taken is at     *)
(* most 12 for every token consumed so far (and 12 more), so at most 12    *)
(* times the length of the stream.  A call of stmt() that returns has      *)
(* advanced the cursor.                                                    *)
(***************************************************************************)
Procedures == {"parse", "parse_ret", "stmt", "stmt_return", "stmt_if", "stmt_if_cond",
               "stmt_if_then", "stmt_if_else", "stmt_for", "stmt_for_init",
               "stmt_for_cond", "stmt_for_inc", "stmt_for_incr", "stmt_for_then",
               "stmt_while", "stmt_while_cond", "stmt_while_then", "stmt_block",
               "stmt_expr", "compound_stmt", "compound_stmt_push", "expr_stmt",
               "expr_stmt_end", "expr", "assign", "assign_eq", "assign_rhs",
               "equality", "equality_loop", "relational", "relational_loop", "add",
               "add_loop", "mul", "mul_loop", "unary", "unary_neg", "primary",
               "primary_paren"}
StmtReturns == {"stmt_return", "stmt_if_then", "stmt_if_else", "stmt_for_then",
                "stmt_while_then", "stmt_block", "stmt_expr"}

C10_Progress ==
    /\ steps <= 12 * (cursor + 1)
    /\ status = "running" => (stack # <<>> /\ Top(Cur).pc \in Procedures)
    /\ Halted => steps <= 12 * Len(tokens)

C10_StmtAdvances ==
    (/\ status = "running" /\ status' = "running"
     /\ Top(Cur).pc \in StmtReturns
     /\ Len(stack') = Len(stack) - 1) => cursor' > Top(Cur).start

C10_Terminates ==
    /\ <>(status \in {"returned", "fatal"})
    /\ [](C10_Progress)
    /\ [][C10_StmtAdvances]_vars

C10_Witness ==
    /\ Returned
    /\ Len(Body) >= 3
    /\ steps > 12

====
